---- MODULE Spec2Model ----
(***************************************************************************)
(* A model of resultite.result: the Result container with its two final    *)
(* subclasses Ok and Err, their query / extraction / mapping methods in    *)
(* the blocking and the coroutine form, and the decorators resultify and   *)
(* async_resultify.                                                        *)
(*                                                                         *)
(* Python objects are modelled as follows.  A Result instance is a cell of *)
(* `heap` (its index is its identity) holding its class and its single     *)
(* slot.  Every other Python value is a record [k, cls, n]: an int, a      *)
(* bool, None, an exception object (cls is its class, n its identity) or a *)
(* reference to a Result instance.                                         *)
(***************************************************************************)
EXTENDS Integers, Sequences, FiniteSets

VARIABLES heap, last, tasks, chain

vars == <<heap, last, tasks, chain>>

(***************************************************************************)
(* Bounds of the model.                                                    *)
(***************************************************************************)
MaxObjs == 3

(***************************************************************************)
(* Python values.                                                          *)
(***************************************************************************)
IntVal(i) == [k |-> "val", cls |-> "int", n |-> i]

BoolVal(b) == [k |-> "val", cls |-> "bool", n |-> IF b THEN 1 ELSE 0]

NoneVal == [k |-> "val", cls |-> "NoneType", n |-> 0]

ExcVal(c, i) == [k |-> "exc", cls |-> c, n |-> i]

Ref(i) == [k |-> "ref", cls |-> "Result", n |-> i]

\* The classes deriving from Exception that occur.  SystemExit and
\* asyncio.CancelledError derive from BaseException only (CancelledError since
\* Python 3.8, which the test-suite's IsolatedAsyncioTestCase requires).
ExceptionClasses == {"ValueError", "RuntimeError", "TypeError"}

\* isinstance(v, Exception)
IsException(v) == v.k = "exc" /\ v.cls \in ExceptionClasses

\* The exception objects of the model.
UserError == ExcVal("ValueError", 1)

BoomError == ExcVal("ValueError", 2)

MappedError == ExcVal("RuntimeError", 1)

ForbiddenError == ExcVal("RuntimeError", 2)

ExitSignal == ExcVal("SystemExit", 1)

CancelledError == ExcVal("CancelledError", 1)

\* The TypeError Err.__init__ raises, and the one the interpreter raises for a
\* call with the wrong number of arguments or for int + non-int.
CtorTypeError == ExcVal("TypeError", 1)

CallTypeError == ExcVal("TypeError", 2)

(***************************************************************************)
(* An evaluation context m carries the heap and the log of the calls made  *)
(* to user functions; an outcome is a context extended with how the        *)
(* evaluation ended: kind "return" with the value, or "raise" with the     *)
(* exception object.                                                       *)
(***************************************************************************)
Return(m, v) == [heap |-> m.heap, invoked |-> m.invoked, kind |-> "return", val |-> v]

Raise(m, e) == [heap |-> m.heap, invoked |-> m.invoked, kind |-> "raise", val |-> e]

\* Ok.__init__: stores the value, whatever it is.
Ok_init(m, value) ==
    [heap    |-> Append(m.heap, [tag |-> "Ok", payload |-> value]),
     invoked |-> m.invoked,
     kind    |-> "return",
     val     |-> Ref(Len(m.heap) + 1)]

\* Err.__init__ without its isinstance check.
Err_init_Unchecked(m, error) ==
    [heap    |-> Append(m.heap, [tag |-> "Err", payload |-> error]),
     invoked |-> m.invoked,
     kind    |-> "return",
     val     |-> Ref(Len(m.heap) + 1)]

\* Err.__init__: raises TypeError unless the error is an Exception instance.
Err_init(m, error) ==
    IF ~IsException(error)
    THEN Raise(m, CtorTypeError)
    ELSE [heap    |-> Append(m.heap, [tag |-> "Err", payload |-> error]),
          invoked |-> m.invoked,
          kind    |-> "return",
          val     |-> Ref(Len(m.heap) + 1)]

(***************************************************************************)
(* The user functions handed to the combinators and decorators: what each  *)
(* does with one argument.  "Ok" / "Err" stand for a function that builds  *)
(* and returns a Result.                                                   *)
(***************************************************************************)
Funcs == {"inc", "fail", "to_runtime", "const0", "mk_ok", "mk_err", "maybe_raise", "sys_exit"}

\* The functions callers hand to map / map_async, to map_err, to and_then /
\* and_then_async, and to the decorators.
MapFuncs == {"inc", "fail", "mk_ok", "sys_exit"}

MapErrFuncs == {"to_runtime", "const0", "fail", "sys_exit"}

AndThenFuncs == {"mk_ok", "mk_err", "fail", "const0", "sys_exit"}

WrappedFuncs == {"maybe_raise", "sys_exit"}

\* The coroutine functions handed to map_async, and_then_async and
\* async_resultify: the suspending versions of these.
MapAsyncFuncs == {"inc", "fail"}

AndThenAsyncFuncs == {"mk_ok", "fail"}

AsyncWrappedFuncs == {"maybe_raise"}

FuncBody(f, x) ==
    CASE f = "inc" ->
           IF x.cls = "int" THEN [kind |-> "return", val |-> IntVal(x.n + 1)]
           ELSE [kind |-> "raise", val |-> CallTypeError]
      [] f = "fail" -> [kind |-> "raise", val |-> BoomError]
      [] f = "to_runtime" -> [kind |-> "return", val |-> MappedError]
      [] f = "const0" -> [kind |-> "return", val |-> IntVal(0)]
      [] f = "mk_ok" ->
           IF x.cls = "int" THEN [kind |-> "Ok", val |-> IntVal(x.n + 1)]
           ELSE [kind |-> "raise", val |-> CallTypeError]
      [] f = "mk_err" -> [kind |-> "Err", val |-> BoomError]
      [] f = "maybe_raise" ->
           IF x.cls # "int" THEN [kind |-> "raise", val |-> CallTypeError]
           ELSE IF x.n > 0 THEN [kind |-> "raise", val |-> ForbiddenError]
           ELSE [kind |-> "return", val |-> x]
      [] OTHER -> [kind |-> "raise", val |-> ExitSignal]

\* func(*args): logs the call; every function of Funcs takes one argument.
Call(m, f, args) ==
    LET m1 == [heap |-> m.heap, invoked |-> Append(m.invoked, [func |-> f, args |-> args])]
    IN  IF Len(args) # 1 THEN Raise(m1, CallTypeError)
        ELSE LET b == FuncBody(f, args[1])
             IN  CASE b.kind = "return" -> Return(m1, b.val)
                   [] b.kind = "raise" -> Raise(m1, b.val)
                   [] b.kind = "Ok" -> Ok_init(m1, b.val)
                   [] OTHER -> Err_init(m1, b.val)

\* except BaseException as exc: return Err(exc)
ExceptBaseException(o) ==
    IF o.kind = "raise" THEN Err_init(o, o.val) ELSE o

\* except Exception as exc: return Err(exc)
ExceptException(o) ==
    IF o.kind = "raise" /\ IsException(o.val) THEN Err_init(o, o.val) ELSE o

(***************************************************************************)
(* Equality.  == on two values: Result instances compare by Ok.__eq__ /    *)
(* Err.__eq__, ints by value, exception objects by identity.               *)
(***************************************************************************)
RECURSIVE PyEq(_, _, _)
PyEq(h, a, b) ==
    IF a.k = "ref" /\ b.k = "ref"
    THEN /\ h[a.n].tag = h[b.n].tag
         /\ PyEq(h, h[a.n].payload, h[b.n].payload)
    ELSE a = b

\* Ok.__eq__ without its isinstance check.
Ok_eq_AnyClass(h, self, other) == PyEq(h, h[self].payload, h[other].payload)

\* Ok.__eq__(self, other), other a Result instance
Ok_eq(h, self, other) ==
    h[other].tag = "Ok" /\ PyEq(h, h[self].payload, h[other].payload)

\* Err.__eq__(self, other), other a Result instance
Err_eq(h, self, other) ==
    h[other].tag = "Err" /\ PyEq(h, h[self].payload, h[other].payload)

\* self == other, dispatched on the class of self
Result_eq(h, self, other) ==
    IF h[self].tag = "Ok" THEN Ok_eq(h, self, other) ELSE Err_eq(h, self, other)

\* Result.__ne__
Result_ne(h, self, other) == ~Result_eq(h, self, other)

(***************************************************************************)
(* Queries and extraction.                                                 *)
(***************************************************************************)
\* Result.is_ok: isinstance(self, Ok)
is_ok(h, self) == h[self].tag = "Ok"

\* Result.is_err: isinstance(self, Err)
is_err(h, self) == h[self].tag = "Err"

Ok_unwrap(m, self) == Return(m, m.heap[self].payload)

Ok_unwrap_or(m, self, default) == Return(m, m.heap[self].payload)

\* Err.unwrap raising a copy of the stored exception.
Err_unwrap_Copy(m, self) ==
    Raise(m, ExcVal(m.heap[self].payload.cls, m.heap[self].payload.n + 1))

Err_unwrap(m, self) == Raise(m, m.heap[self].payload)

\* Err.unwrap_or clearing the stored error on the way.
Err_unwrap_or_Clears(m, self, default) ==
    Return([heap |-> [m.heap EXCEPT ![self].payload = NoneVal], invoked |-> m.invoked],
           default)

Err_unwrap_or(m, self, default) == Return(m, default)

(***************************************************************************)
(* The blocking combinators.                                               *)
(***************************************************************************)
\* Ok.map without its try / except.
Ok_map_Uncaught(m, self, f) ==
    LET c == Call(m, f, <<m.heap[self].payload>>)
    IN  IF c.kind = "return" THEN Ok_init(c, c.val) ELSE c

Ok_map(m, self, f) ==
    LET c == Call(m, f, <<m.heap[self].payload>>)
    IN  ExceptException(IF c.kind = "return" THEN Ok_init(c, c.val) ELSE c)

Ok_map_err(m, self, f) == Ok_init(m, m.heap[self].payload)

Ok_and_then(m, self, f) ==
    ExceptException(Call(m, f, <<m.heap[self].payload>>))

\* Err.map applying the function as Ok.map does.
Err_map_Applies(m, self, f) == Ok_map(m, self, f)

Err_map(m, self, f) == Err_init(m, m.heap[self].payload)

\* Err.map_err keeping the original error when the mapper raises.
Err_map_err_KeepsOriginal(m, self, f) ==
    LET c == Call(m, f, <<m.heap[self].payload>>)
    IN  IF c.kind = "return" THEN ExceptException(Err_init(c, c.val))
        ELSE Err_init(c, m.heap[self].payload)

Err_map_err(m, self, f) ==
    LET c == Call(m, f, <<m.heap[self].payload>>)
    IN  ExceptException(IF c.kind = "return" THEN Err_init(c, c.val) ELSE c)

Err_and_then(m, self, f) == Err_init(m, m.heap[self].payload)

\* The wrapper of resultify calling func a second time when it raised.
resultify_wrapper_Retries(m, f, args) ==
    LET c == Call(m, f, args)
        d == IF c.kind = "raise" THEN Call(c, f, args) ELSE c
    IN  ExceptException(IF d.kind = "return" THEN Ok_init(d, d.val) ELSE d)

\* The wrapper resultify(func) returns, called with args.
resultify_wrapper(m, f, args) ==
    LET c == Call(m, f, args)
    IN  ExceptException(IF c.kind = "return" THEN Ok_init(c, c.val) ELSE c)

(***************************************************************************)
(* The coroutine combinators.  The coroutine functions handed to them are  *)
(* the suspending versions of Funcs: each suspends once (await             *)
(* asyncio.sleep) and then returns or raises as the blocking function      *)
(* does.  `value` / `args` are what the combinator passed to the function  *)
(* before it suspended; `cancelled` says the scheduler cancelled the task  *)
(* while it was suspended, so that the await raises CancelledError.        *)
(***************************************************************************)
\* await func(*args), resumed
Await(m, f, args, cancelled) ==
    IF cancelled
    THEN Raise([heap |-> m.heap,
                invoked |-> Append(m.invoked, [func |-> f, args |-> args])],
               CancelledError)
    ELSE Call(m, f, args)

Ok_map_async(m, value, f, cancelled) ==
    LET c == Await(m, f, <<value>>, cancelled)
    IN  ExceptException(IF c.kind = "return" THEN Ok_init(c, c.val) ELSE c)

\* Ok.and_then_async without its try / except.
Ok_and_then_async_Uncaught(m, value, f, cancelled) == Await(m, f, <<value>>, cancelled)

Ok_and_then_async(m, value, f, cancelled) ==
    ExceptException(Await(m, f, <<value>>, cancelled))

Err_map_async(m, self, f) == Err_init(m, m.heap[self].payload)

Err_and_then_async(m, self, f) == Err_init(m, m.heap[self].payload)

\* The wrapper async_resultify(func) returns, called with args.
async_resultify_wrapper(m, f, args, cancelled) ==
    LET c == Await(m, f, args, cancelled)
    IN  ExceptException(IF c.kind = "return" THEN Ok_init(c, c.val) ELSE c)

(***************************************************************************)
(* The state machine.  `heap` holds the Result instances built so far,     *)
(* `last` the call that completed last with its outcome, `tasks` the       *)
(* coroutines in flight, and `chain` follows a caller that feeds each      *)
(* result of map / and_then / map_async / and_then_async, starting from an *)
(* Err, to the next such call.                                             *)
(***************************************************************************)
Tasks == {1, 2}

Objs == 1..Len(heap)

\* What callers pass to the constructors, and as a default to unwrap_or.
OkArgs == {IntVal(0), UserError}

ErrArgs == {UserError, IntVal(0), ExitSignal}

Defaults == {NoneVal}

ArgLists == {<<IntVal(0)>>, <<IntVal(1)>>, <<IntVal(0), IntVal(1)>>}

ChainOps == {"map", "and_then", "map_async", "and_then_async"}

M0 == [heap |-> heap, invoked |-> <<>>]

Idle == [pc |-> "idle", op |-> "none", recv |-> 0, func |-> "none", args |-> <<>>]

NoChain == [root |-> 0, cur |-> 0, len |-> 0, calls |-> 0]

NoCall == [op |-> "none", recv |-> 0, other |-> 0, func |-> "none", args |-> <<>>,
           kind |-> "return", val |-> NoneVal, invoked |-> <<>>, made |-> 0,
           cancelled |-> FALSE]

\* The caller's chain after a call of `op` on receiver r ended with outcome o.
ChainAfter(op, r, o) ==
    IF op \notin ChainOps THEN chain
    ELSE LET cur == IF o.kind = "return" /\ o.val.k = "ref" THEN o.val.n ELSE 0
         IN  IF chain.len > 0 /\ r = chain.cur
             THEN [root |-> chain.root, cur |-> cur, len |-> chain.len + 1,
                   calls |-> chain.calls + Len(o.invoked)]
             ELSE IF heap[r].tag = "Err"
             THEN [root |-> r, cur |-> cur, len |-> 1, calls |-> Len(o.invoked)]
             ELSE NoChain

\* A call completes with outcome o: the instances it built join the heap and
\* the caller sees how it ended.
Complete(op, r, other, f, args, cancelled, o) ==
    /\ Len(o.heap) <= MaxObjs
    /\ heap' = o.heap
    /\ last' = [op |-> op, recv |-> r, other |-> other, func |-> f, args |-> args,
                kind |-> o.kind, val |-> o.val, invoked |-> o.invoked,
                made |-> Len(o.heap) - Len(heap), cancelled |-> cancelled]
    /\ chain' = ChainAfter(op, r, o)

Init ==
    /\ heap = <<>>
    /\ last = NoCall
    /\ tasks = [t \in Tasks |-> Idle]
    /\ chain = NoChain

\* Ok(value)
NewOk ==
    \E v \in OkArgs :
        /\ Complete("Ok", 0, 0, "none", <<v>>, FALSE, Ok_init(M0, v))
        /\ UNCHANGED tasks

\* Err(error)
NewErr ==
    \E e \in ErrArgs :
        /\ Complete("Err", 0, 0, "none", <<e>>, FALSE, Err_init(M0, e))
        /\ UNCHANGED tasks

\* r.is_ok()
IsOk ==
    \E r \in Objs :
        /\ Complete("is_ok", r, 0, "none", <<>>, FALSE, Return(M0, BoolVal(is_ok(heap, r))))
        /\ UNCHANGED tasks

\* r.is_err()
IsErr ==
    \E r \in Objs :
        /\ Complete("is_err", r, 0, "none", <<>>, FALSE, Return(M0, BoolVal(is_err(heap, r))))
        /\ UNCHANGED tasks

\* a == b
Eq ==
    \E a \in Objs, b \in Objs :
        /\ Complete("eq", a, b, "none", <<>>, FALSE, Return(M0, BoolVal(Result_eq(heap, a, b))))
        /\ UNCHANGED tasks

\* a != b
Ne ==
    \E a \in Objs, b \in Objs :
        /\ Complete("ne", a, b, "none", <<>>, FALSE, Return(M0, BoolVal(Result_ne(heap, a, b))))
        /\ UNCHANGED tasks

\* r.unwrap()
Unwrap ==
    \E r \in Objs :
        /\ Complete("unwrap", r, 0, "none", <<>>, FALSE,
                    IF heap[r].tag = "Ok" THEN Ok_unwrap(M0, r) ELSE Err_unwrap(M0, r))
        /\ UNCHANGED tasks

\* r.unwrap_or(d)
UnwrapOr ==
    \E r \in Objs, d \in Defaults :
        /\ Complete("unwrap_or", r, 0, "none", <<d>>, FALSE,
                    IF heap[r].tag = "Ok" THEN Ok_unwrap_or(M0, r, d)
                    ELSE Err_unwrap_or(M0, r, d))
        /\ UNCHANGED tasks

\* r.map(f)
Map ==
    \E r \in Objs, f \in MapFuncs :
        /\ Complete("map", r, 0, f, <<>>, FALSE,
                    IF heap[r].tag = "Ok" THEN Ok_map(M0, r, f) ELSE Err_map(M0, r, f))
        /\ UNCHANGED tasks

\* r.map_err(f)
MapErr ==
    \E r \in Objs, f \in MapErrFuncs :
        /\ Complete("map_err", r, 0, f, <<>>, FALSE,
                    IF heap[r].tag = "Ok" THEN Ok_map_err(M0, r, f)
                    ELSE Err_map_err(M0, r, f))
        /\ UNCHANGED tasks

\* r.and_then(f)
AndThen ==
    \E r \in Objs, f \in AndThenFuncs :
        /\ Complete("and_then", r, 0, f, <<>>, FALSE,
                    IF heap[r].tag = "Ok" THEN Ok_and_then(M0, r, f)
                    ELSE Err_and_then(M0, r, f))
        /\ UNCHANGED tasks

\* resultify(f)(*args)
Resultify ==
    \E f \in WrappedFuncs, args \in ArgLists :
        /\ Complete("resultify", 0, 0, f, args, FALSE, resultify_wrapper(M0, f, args))
        /\ UNCHANGED tasks

NextSync ==
    \/ NewOk \/ NewErr \/ IsOk \/ IsErr \/ Eq \/ Ne \/ Unwrap \/ UnwrapOr
    \/ Map \/ MapErr \/ AndThen \/ Resultify

SpecSync == Init /\ [][NextSync]_vars

\* A task calls r.map_async(f) or r.and_then_async(f) and awaits it.  On an Err
\* the coroutine returns without suspending; on an Ok it calls f with the
\* value and suspends in it.
MapAsyncStart(T) ==
    \E t \in T, r \in Objs, f \in MapAsyncFuncs :
        /\ tasks[t].pc = "idle"
        /\ IF heap[r].tag = "Err"
           THEN /\ Complete("map_async", r, 0, f, <<>>, FALSE, Err_map_async(M0, r, f))
                /\ UNCHANGED tasks
           ELSE /\ tasks' = [tasks EXCEPT ![t] =
                       [pc |-> "awaiting", op |-> "map_async", recv |-> r, func |-> f,
                        args |-> <<heap[r].payload>>]]
                /\ UNCHANGED <<heap, last, chain>>

AndThenAsyncStart(T) ==
    \E t \in T, r \in Objs, f \in AndThenAsyncFuncs :
        /\ tasks[t].pc = "idle"
        /\ IF heap[r].tag = "Err"
           THEN /\ Complete("and_then_async", r, 0, f, <<>>, FALSE,
                            Err_and_then_async(M0, r, f))
                /\ UNCHANGED tasks
           ELSE /\ tasks' = [tasks EXCEPT ![t] =
                       [pc |-> "awaiting", op |-> "and_then_async", recv |-> r,
                        func |-> f, args |-> <<heap[r].payload>>]]
                /\ UNCHANGED <<heap, last, chain>>

\* A task calls async_resultify(f)(*args) and awaits it.  A call with the wrong
\* number of arguments raises before the function suspends.
AsyncResultifyStart(T) ==
    \E t \in T, f \in AsyncWrappedFuncs, args \in ArgLists :
        /\ tasks[t].pc = "idle"
        /\ IF Len(args) # 1
           THEN /\ Complete("async_resultify", 0, 0, f, args, FALSE,
                            async_resultify_wrapper(M0, f, args, FALSE))
                /\ UNCHANGED tasks
           ELSE /\ tasks' = [tasks EXCEPT ![t] =
                       [pc |-> "awaiting", op |-> "async_resultify", recv |-> 0,
                        func |-> f, args |-> args]]
                /\ UNCHANGED <<heap, last, chain>>

\* How the suspended call k ends: the awaited function finishes
\* (cancelled = FALSE), or the task was cancelled and the await raises
\* CancelledError (cancelled = TRUE).
Finish(k, cancelled) ==
    CASE k.op = "map_async" -> Ok_map_async(M0, k.args[1], k.func, cancelled)
      [] k.op = "and_then_async" -> Ok_and_then_async(M0, k.args[1], k.func, cancelled)
      [] OTHER -> async_resultify_wrapper(M0, k.func, k.args, cancelled)

\* The scheduler resumes a suspended task whose awaited function is done; the
\* task runs to the end of its call.
Resume(T) ==
    \E t \in T :
        /\ tasks[t].pc = "awaiting"
        /\ Complete(tasks[t].op, tasks[t].recv, 0, tasks[t].func, tasks[t].args, FALSE,
                    Finish(tasks[t], FALSE))
        /\ tasks' = [tasks EXCEPT ![t] = Idle]

\* The scheduler cancels a suspended task and resumes it.
Cancel(T) ==
    \E t \in T :
        /\ tasks[t].pc = "awaiting"
        /\ Complete(tasks[t].op, tasks[t].recv, 0, tasks[t].func, tasks[t].args, TRUE,
                    Finish(tasks[t], TRUE))
        /\ tasks' = [tasks EXCEPT ![t] = Idle]

\* Two tasks awaiting coroutine calls on the instances a caller builds.
NextAsync ==
    \/ NewOk \/ NewErr
    \/ MapAsyncStart(Tasks) \/ AndThenAsyncStart(Tasks) \/ AsyncResultifyStart(Tasks)
    \/ Resume(Tasks) \/ Cancel(Tasks)

\* Every operation that builds instances: a caller making the blocking calls
\* while one task awaits coroutine calls.
NextBuild ==
    \/ NewOk \/ NewErr \/ Map \/ MapErr \/ AndThen \/ Resultify
    \/ MapAsyncStart({1}) \/ AndThenAsyncStart({1}) \/ AsyncResultifyStart({1})
    \/ Resume({1}) \/ Cancel({1})

\* Every method of an instance: a caller making the blocking calls while one
\* task awaits coroutine calls.
NextUse ==
    \/ NewOk \/ NewErr
    \/ IsOk \/ IsErr \/ Eq \/ Ne \/ Unwrap \/ UnwrapOr
    \/ Map \/ MapErr \/ AndThen
    \/ MapAsyncStart({1}) \/ AndThenAsyncStart({1}) \/ Resume({1}) \/ Cancel({1})

\* The whole interface: the methods and the decorators.
Next == NextUse \/ Resultify \/ AsyncResultifyStart({1})

SpecAsync == Init /\ [][NextAsync]_vars

SpecBuild == Init /\ [][NextBuild]_vars

SpecUse == Init /\ [][NextUse]_vars

Spec == Init /\ [][Next]_vars

(***************************************************************************)
(* What the properties below read off `last`.                              *)
(***************************************************************************)
\* The class of the receiver of the last call.
LastRecvTag == IF last.recv \in Objs THEN heap[last.recv].tag ELSE "none"

\* The last call returned a Result instance of class tag holding payload.
ReturnedObj(tag, payload) ==
    /\ last.kind = "return"
    /\ last.val.k = "ref"
    /\ last.val.n \in Objs
    /\ heap[last.val.n] = [tag |-> tag, payload |-> payload]

\* The last call let exception e through to its caller and built nothing.
Propagated(e) == last.kind = "raise" /\ last.val = e /\ last.made = 0

\* Value v is what the user function returned, b being FuncBody's account of it.
FuncResultIs(v, b) ==
    CASE b.kind = "return" -> v = b.val
      [] b.kind = "Ok" ->
           v.k = "ref" /\ v.n \in Objs /\ heap[v.n] = [tag |-> "Ok", payload |-> b.val]
      [] b.kind = "Err" ->
           v.k = "ref" /\ v.n \in Objs /\ heap[v.n] = [tag |-> "Err", payload |-> b.val]
      [] OTHER -> FALSE

\* The last call invoked exactly its function, once, on exactly args.
InvokedOnceWith(args) == last.invoked = <<[func |-> last.func, args |-> args]>>

(***************************************************************************)
(* C1, as stated: Ok(v).map(f) is Ok(f(v)) when f returns and Err(e) when  *)
(* f raises e; Ok(v).and_then(f) is f(v) when f returns a Result and       *)
(* Err(e) when f raises e; map and and_then never raise, whatever f        *)
(* raises.                                                                 *)
(***************************************************************************)
C1_Original ==
    (last.op \in {"map", "and_then"} /\ LastRecvTag = "Ok") =>
        LET b == FuncBody(last.func, heap[last.recv].payload)
        IN  /\ last.kind = "return"
            /\ (b.kind = "raise") => ReturnedObj("Err", b.val)
            /\ (b.kind # "raise" /\ last.op = "map") =>
                  /\ last.val.k = "ref"
                  /\ last.val.n \in Objs
                  /\ heap[last.val.n].tag = "Ok"
                  /\ FuncResultIs(heap[last.val.n].payload, b)
            /\ (b.kind \in {"Ok", "Err"} /\ last.op = "and_then") =>
                  FuncResultIs(last.val, b)

(***************************************************************************)
(* C1, amended: as C1 for a function that returns or raises an Exception   *)
(* instance (f is called once, on the held value); an exception that is    *)
(* not an Exception instance (SystemExit, KeyboardInterrupt,               *)
(* CancelledError) is not captured: map / and_then raise it and build no   *)
(* Result.                                                                 *)
(***************************************************************************)
C1_Capture ==
    (last.op \in {"map", "and_then"} /\ LastRecvTag = "Ok") =>
        LET b == FuncBody(last.func, heap[last.recv].payload)
        IN  /\ InvokedOnceWith(<<heap[last.recv].payload>>)
            /\ (b.kind = "raise" /\ IsException(b.val)) => ReturnedObj("Err", b.val)
            /\ (b.kind = "raise" /\ ~IsException(b.val)) => Propagated(b.val)
            /\ (b.kind # "raise") => last.kind = "return"
            /\ (b.kind # "raise" /\ last.op = "map") =>
                  /\ last.val.k = "ref"
                  /\ last.val.n \in Objs
                  /\ heap[last.val.n].tag = "Ok"
                  /\ FuncResultIs(heap[last.val.n].payload, b)
            /\ (b.kind \in {"Ok", "Err"} /\ last.op = "and_then") =>
                  FuncResultIs(last.val, b)

\* Ok(0).map(fail) has returned Err(ValueError("boom")).
C1_Witness ==
    /\ last.op = "map"
    /\ LastRecvTag = "Ok"
    /\ last.func = "fail"
    /\ ReturnedObj("Err", BoomError)

(***************************************************************************)
(* C2: map, and_then, map_async and and_then_async on an Err, and map_err  *)
(* on an Ok, return a Result equal to the receiver and never call their    *)
(* function; after any chain of map / and_then / map_async /               *)
(* and_then_async calls starting from an Err the result still equals that  *)
(* Err and no function of the chain has run.                               *)
(***************************************************************************)
C2_NoOp ==
    /\ ((last.op \in ChainOps /\ LastRecvTag = "Err")
          \/ (last.op = "map_err" /\ LastRecvTag = "Ok")) =>
          /\ ReturnedObj(heap[last.recv].tag, heap[last.recv].payload)
          /\ Result_eq(heap, last.val.n, last.recv)
          /\ last.invoked = <<>>
    /\ (chain.len > 0) =>
          /\ chain.cur \in Objs
          /\ heap[chain.cur].tag = "Err"
          /\ Result_eq(heap, chain.cur, chain.root)
          /\ chain.calls = 0

\* An Err went through two of the four combinators, the second a coroutine one.
C2_Witness ==
    /\ chain.len = 2
    /\ last.op = "and_then_async"
    /\ last.recv = chain.root + 1
    /\ heap[chain.root].tag = "Err"

(***************************************************************************)
(* C3, as stated: Err(e).map_err(f) is Err(f(e)) whatever f returns, and   *)
(* Err(e2) when f raises e2; map_err never raises.                         *)
(***************************************************************************)
C3_Original ==
    (last.op = "map_err" /\ LastRecvTag = "Err") =>
        LET b == FuncBody(last.func, heap[last.recv].payload)
        IN  ReturnedObj("Err", b.val)

(***************************************************************************)
(* C3, amended: Err(e).map_err(f) calls f once on e and is Err(f(e)) when  *)
(* f returns an Exception instance; when f returns anything else, Err's    *)
(* constructor raises TypeError inside map_err and the result is an Err    *)
(* holding that TypeError; it is Err(e2) when f raises an Exception e2;    *)
(* an exception that is not an Exception instance is raised by map_err     *)
(* itself.  Whenever map_err returns, it returns an Err.                   *)
(***************************************************************************)
C3_MapErr ==
    (last.op = "map_err" /\ LastRecvTag = "Err") =>
        LET b == FuncBody(last.func, heap[last.recv].payload)
        IN  /\ InvokedOnceWith(<<heap[last.recv].payload>>)
            /\ IsException(b.val) => ReturnedObj("Err", b.val)
            /\ (b.kind = "return" /\ ~IsException(b.val)) =>
                  ReturnedObj("Err", CtorTypeError)
            /\ (b.kind = "raise" /\ ~IsException(b.val)) => Propagated(b.val)
            /\ (last.kind = "return") =>
                  /\ last.val.k = "ref"
                  /\ last.val.n \in Objs
                  /\ heap[last.val.n].tag = "Err"

\* Err(e).map_err(lambda e: 0) has returned an Err holding the TypeError.
C3_Witness ==
    /\ last.op = "map_err"
    /\ LastRecvTag = "Err"
    /\ last.func = "const0"
    /\ ReturnedObj("Err", CtorTypeError)

\* What the wrapped function does with args: a call with the wrong number of
\* arguments raises TypeError.
WrappedBody(f, args) ==
    IF Len(args) # 1 THEN [kind |-> "raise", val |-> CallTypeError]
    ELSE FuncBody(f, args[1])

(***************************************************************************)
(* C4, as stated: the wrapper of resultify(fn) / async_resultify(fn) calls *)
(* fn once with the arguments given, returns Ok(fn(args)) when fn returns  *)
(* and Err(e) when fn raises e, and never lets an error of fn through.     *)
(***************************************************************************)
C4_Original ==
    (last.op \in {"resultify", "async_resultify"} /\ ~last.cancelled) =>
        LET b == WrappedBody(last.func, last.args)
        IN  /\ InvokedOnceWith(last.args)
            /\ last.kind = "return"
            /\ (b.kind = "return") => ReturnedObj("Ok", b.val)
            /\ (b.kind = "raise") => ReturnedObj("Err", b.val)

(***************************************************************************)
(* C4, amended: the wrapper calls fn once with the arguments given,        *)
(* returns Ok(fn(args)) when fn returns and Err(e) when fn raises an       *)
(* Exception instance e; an exception of fn that is not an Exception       *)
(* instance (SystemExit, KeyboardInterrupt, CancelledError) is not         *)
(* captured and reaches the caller.                                        *)
(***************************************************************************)
C4_Capture ==
    (last.op \in {"resultify", "async_resultify"} /\ ~last.cancelled) =>
        LET b == WrappedBody(last.func, last.args)
        IN  /\ InvokedOnceWith(last.args)
            /\ (b.kind = "return") => ReturnedObj("Ok", b.val)
            /\ (b.kind = "raise" /\ IsException(b.val)) => ReturnedObj("Err", b.val)
            /\ (b.kind = "raise" /\ ~IsException(b.val)) => Propagated(b.val)

\* The coroutine wrapper of maybe_raise, awaited with 1, has returned
\* Err(RuntimeError).
C4_Witness ==
    /\ last.op = "async_resultify"
    /\ last.func = "maybe_raise"
    /\ last.args = <<IntVal(1)>>
    /\ ~last.cancelled
    /\ ReturnedObj("Err", ForbiddenError)

(***************************************************************************)
(* C5: is_ok / is_err answer by the class of the instance and exactly one  *)
(* of them is true; on an Ok, unwrap and unwrap_or(d) return the value; on *)
(* an Err, unwrap raises the stored exception object itself and            *)
(* unwrap_or(d) returns d.                                                 *)
(***************************************************************************)
C5_Extraction ==
    /\ \A r \in Objs : is_ok(heap, r) # is_err(heap, r)
    /\ (last.op = "is_ok") => last.val = BoolVal(LastRecvTag = "Ok")
    /\ (last.op = "is_err") => last.val = BoolVal(LastRecvTag = "Err")
    /\ (last.op \in {"is_ok", "is_err", "unwrap_or"}) => last.kind = "return"
    /\ (last.op \in {"unwrap", "unwrap_or"} /\ LastRecvTag = "Ok") =>
          last.kind = "return" /\ last.val = heap[last.recv].payload
    /\ (last.op = "unwrap" /\ LastRecvTag = "Err") =>
          last.kind = "raise" /\ last.val = heap[last.recv].payload
    /\ (last.op = "unwrap_or" /\ LastRecvTag = "Err") => last.val = last.args[1]

\* unwrap() on an Err built by a combinator has raised the stored exception.
C5_Witness ==
    /\ last.op = "unwrap"
    /\ LastRecvTag = "Err"
    /\ last.recv > 1
    /\ last.kind = "raise"
    /\ last.val = BoomError

(***************************************************************************)
(* C6: no call changes an existing instance: every step leaves the class   *)
(* and the payload of every instance built so far as they are (results are *)
(* new instances); and unwrap() right after unwrap_or(d) on the same Err   *)
(* still raises the stored exception.                                      *)
(***************************************************************************)
C6_Immutable ==
    [][/\ Len(heap') >= Len(heap)
       /\ \A i \in Objs : heap'[i] = heap[i]
       /\ (/\ last.op = "unwrap_or"
           /\ LastRecvTag = "Err"
           /\ last'.op = "unwrap"
           /\ last'.recv = last.recv) =>
              (last'.kind = "raise" /\ last'.val = heap[last.recv].payload)]_vars

\* An Err that went through two combinators, each building a new instance, was
\* unwrapped afterwards and raised the exception it was built with.
C6_Witness ==
    /\ chain.len = 2
    /\ Len(heap) = chain.root + 2
    /\ last.op = "unwrap"
    /\ last.recv = chain.root
    /\ last.kind = "raise"
    /\ last.val = heap[chain.root].payload

(***************************************************************************)
(* C7: Err(x) with x not an Exception instance raises TypeError and builds *)
(* no instance; every Err there is holds an Exception instance.            *)
(***************************************************************************)
C7_ErrHoldsException ==
    /\ (last.op = "Err" /\ ~IsException(last.args[1])) =>
          /\ last.kind = "raise"
          /\ last.val.cls = "TypeError"
          /\ last.made = 0
    /\ \A i \in Objs : (heap[i].tag = "Err") => IsException(heap[i].payload)

\* Err(0) has raised while the heap holds an Err that map_err built from a
\* mapper returning 0.
C7_Witness ==
    /\ last.op = "Err"
    /\ last.args = <<IntVal(0)>>
    /\ last.kind = "raise"
    /\ \E i \in Objs : heap[i] = [tag |-> "Err", payload |-> CtorTypeError]

(***************************************************************************)
(* C8: a == b iff a and b are of the same class and their payloads are     *)
(* equal; an Ok and an Err are never equal; a != b is the negation.        *)
(***************************************************************************)
C8_Equality ==
    (last.op \in {"eq", "ne"}) =>
        LET a == heap[last.recv]
            b == heap[last.other]
            same == a.tag = b.tag /\ PyEq(heap, a.payload, b.payload)
        IN  /\ last.kind = "return"
            /\ (last.op = "eq") => last.val = BoolVal(same)
            /\ (last.op = "ne") => last.val = BoolVal(~same)
            /\ (a.tag # b.tag /\ last.op = "eq") => last.val = BoolVal(FALSE)

\* An Ok and an Err holding the same exception object compared unequal.
C8_Witness ==
    /\ last.op = "eq"
    /\ heap[last.recv].tag = "Ok"
    /\ heap[last.other].tag = "Err"
    /\ heap[last.recv].payload = heap[last.other].payload
    /\ last.val = BoolVal(FALSE)

(***************************************************************************)
(* C9: a coroutine call that was not cancelled ends as the blocking call   *)
(* on the same receiver with the same function ends: both raise the same   *)
(* exception or both return, and the values returned are equal (==).       *)
(***************************************************************************)
BlockingCounterpart ==
    CASE last.op = "map_async" ->
           IF LastRecvTag = "Ok" THEN Ok_map(M0, last.recv, last.func)
           ELSE Err_map(M0, last.recv, last.func)
      [] last.op = "and_then_async" ->
           IF LastRecvTag = "Ok" THEN Ok_and_then(M0, last.recv, last.func)
           ELSE Err_and_then(M0, last.recv, last.func)
      [] OTHER -> resultify_wrapper(M0, last.func, last.args)

C9_AsyncAsBlocking ==
    (last.op \in {"map_async", "and_then_async", "async_resultify"} /\ ~last.cancelled) =>
        LET s == BlockingCounterpart
        IN  /\ s.kind = last.kind
            /\ s.invoked = last.invoked
            /\ IF last.kind = "raise" THEN s.val = last.val
               ELSE PyEq(s.heap, s.val, last.val)

\* Ok(v).map_async(fail) has returned an Err while the other task was suspended.
C9_Witness ==
    /\ last.op = "map_async"
    /\ LastRecvTag = "Ok"
    /\ last.func = "fail"
    /\ ~last.cancelled
    /\ ReturnedObj("Err", BoomError)
    /\ \E t \in Tasks : tasks[t].pc = "awaiting"

(***************************************************************************)
(* C10, as stated: when the awaited function is cancelled while suspended, *)
(* map_async / and_then_async / the async_resultify wrapper return an Err  *)
(* holding the cancellation error.                                         *)
(***************************************************************************)
C10_Original == last.cancelled => ReturnedObj("Err", CancelledError)

(***************************************************************************)
(* C10, amended: the cancellation error, asyncio.CancelledError, is not an *)
(* Exception instance, so it is not captured: map_async / and_then_async / *)
(* the async_resultify wrapper raise it to whoever awaits them and build   *)
(* no Result.                                                              *)
(***************************************************************************)
C10_CancelPropagates ==
    last.cancelled =>
        /\ Propagated(CancelledError)
        /\ \A i \in Objs : heap[i].payload # CancelledError

\* A cancelled and_then_async has raised CancelledError.
C10_Witness ==
    /\ last.cancelled
    /\ last.op = "and_then_async"
    /\ last.kind = "raise"
    /\ last.val = CancelledError

====
